---- MODULE Spec2Model ----
(***************************************************************************)
(* A model of the aforth interpreter (src/src/lib.rs): struct Machine with *)
(* its dictionary and stack, and Machine::eval with everything it calls.   *)
(*                                                                         *)
(* Text (a &str or String) is a sequence of Unicode code points, so        *)
(* "1 0 /" is <<49, 32, 48, 32, 47>>.  Vec<i32> is a sequence whose last   *)
(* element is the top of the stack.  HashMap<String, Vec<Token>> is a      *)
(* function from the set of its keys.                                      *)
(***************************************************************************)
EXTENDS Integers, Sequences, FiniteSets, TLC

VARIABLES
    dictionary,       \* Machine.dictionary
    stack,            \* Machine.stack
    phrase,           \* the argument of the last call of eval
    result,           \* what the last call of eval returned (or its panic)
    overflow_checks,  \* build profile: are arithmetic overflow checks compiled in
    calls,            \* number of calls of eval so far
    before,           \* history: dictionary, stack, phrase and result as the
                      \* last call of eval found them
    source            \* history: for each name defined by a call of eval, the
                      \* body words of its latest definition, and whether no
                      \* word of that body has been defined again since

vars == <<dictionary, stack, phrase, result, overflow_checks, calls, before, source>>

-----------------------------------------------------------------------------
(* i32 arithmetic.  The checker's integers are themselves 32 bits wide, so *)
(* every operator below is written to stay within i32 while it computes.   *)

I32_MAX == 2147483647
I32_MIN == -I32_MAX - 1

IsI32(n) == n >= I32_MIN /\ n <= I32_MAX

\* does the mathematical sum / difference / product leave i32
add_overflows(a, b) ==
    \/ b > 0 /\ a > I32_MAX - b
    \/ b < 0 /\ a < I32_MIN - b

sub_overflows(a, b) ==
    \/ b < 0 /\ a > I32_MAX + b
    \/ b > 0 /\ a < I32_MIN + b

Abs(n) == IF n < 0 THEN -n ELSE n

mul_overflows(a, b) ==
    IF a = 0 \/ b = 0 THEN FALSE
    ELSE IF a = I32_MIN THEN b # 1
    ELSE IF b = I32_MIN THEN a # 1
    ELSE LET x == Abs(a)
             y == Abs(b)
         IN  IF (a < 0) = (b < 0)
             THEN x > I32_MAX \div y
             ELSE y > 1 /\ x > (I32_MAX \div y)
                               + (IF I32_MAX % y = y - 1 THEN 1 ELSE 0)

\* i32::wrapping_add: the sum modulo 2^32, as a two's-complement i32
wrapping_add(a, b) ==
    IF b > 0 /\ a > I32_MAX - b
    THEN ((a - I32_MAX) - 1) + ((b - I32_MAX) - 1)
    ELSE IF b < 0 /\ a < I32_MIN - b
    THEN ((a + I32_MAX) + 1) + ((b + I32_MAX) + 1)
    ELSE a + b

\* i32::wrapping_sub
wrapping_sub(a, b) ==
    IF b < 0 /\ a > I32_MAX + b
    THEN ((a - I32_MAX) - 1) - ((b + I32_MAX) + 1)
    ELSE IF b > 0 /\ a < I32_MIN + b
    THEN ((a + I32_MAX) + 1) - ((b - I32_MAX) - 1)
    ELSE a - b

\* the two 16-bit halves of the two's-complement representation
Hi16(a) == IF a < 0 THEN (a \div 65536) + 65536 ELSE a \div 65536
Lo16(a) == a % 65536

\* x * y modulo 2^16, for x and y in 0..65535
MulMod16(x, y) ==
    ((x * (y % 256)) + ((x * (y \div 256)) % 256) * 256) % 65536

\* the i32 with the 16-bit halves hi and lo
FromHalves(hi, lo) ==
    IF hi >= 32768 THEN (hi - 65536) * 65536 + lo ELSE hi * 65536 + lo

\* the low 32 bits of L + Y1 * 2^16 + cross * 2^16, for an L below 2^25
SumHalves(L, Y1, cross) ==
    FromHalves(((L \div 65536) + Y1 + cross) % 65536, L % 65536)

\* the low 32 bits of the product of al + ah * 2^16 and bl + bh * 2^16, from
\* the partial products X = al * (bl % 256) and Y = al * (bl \div 256)
MulHalves(X, Y, cross) ==
    SumHalves(X + (Y % 256) * 256, Y \div 256, cross)

\* i32::wrapping_mul: the product modulo 2^32, as a two's-complement i32
wrapping_mul(a, b) ==
    MulHalves(Lo16(a) * (Lo16(b) % 256),
              Lo16(a) * (Lo16(b) \div 256),
              MulMod16(Hi16(a), Lo16(b)) + MulMod16(Lo16(a), Hi16(b)))

\* Rust's `%` on i32 (b # 0, not I32_MIN % -1): the remainder has the sign
\* of the dividend
TruncRem(a, b) ==
    IF b = I32_MIN THEN (IF a = I32_MIN THEN 0 ELSE a)
    ELSE LET m == a % Abs(b)
         IN  IF a < 0 /\ m # 0 THEN m - Abs(b) ELSE m

\* Rust's `/` on i32 (b # 0, not I32_MIN / -1): truncates toward zero
TruncDiv(a, b) ==
    LET q == a \div b
    IN  IF TruncRem(a, b) # 0 /\ ((a < 0) # (b < 0)) THEN q + 1 ELSE q

-----------------------------------------------------------------------------
(* enum Word, enum Token *)

Word == {"Dot", "Drop", "Dup", "Emit", "Minus", "Mod", "Plus", "Rot",
         "Slash", "SlashMod", "Spaces", "Star", "Swap"}

Builtin(w) == [t |-> "Builtin", w |-> w, n |-> 0]
Number(n)  == [t |-> "Number", w |-> "", n |-> n]

-----------------------------------------------------------------------------
(* enum Error, and the values a call of eval can end with *)

Ok(out)             == [kind |-> "Ok", out |-> out, err |-> "", msg |-> "", word |-> <<>>, val |-> 0]
Static(msg)         == [kind |-> "Err", out |-> <<>>, err |-> "Static", msg |-> msg, word |-> <<>>, val |-> 0]
UndefinedWord(w)    == [kind |-> "Err", out |-> <<>>, err |-> "UndefinedWord", msg |-> "", word |-> w, val |-> 0]
UnicodeInvalid(v)   == [kind |-> "Err", out |-> <<>>, err |-> "UnicodeInvalid", msg |-> "", word |-> <<>>, val |-> v]
\* a Rust panic: the call does not return a Result at all
Panic(msg)          == [kind |-> "Panic", out |-> <<>>, err |-> "", msg |-> msg, word |-> <<>>, val |-> 0]
\* before the first call
NoResult            == [kind |-> "None", out |-> <<>>, err |-> "", msg |-> "", word |-> <<>>, val |-> 0]

-----------------------------------------------------------------------------
(* text *)

\* u8::is_ascii_whitespace: space, tab, line feed, form feed, carriage return
IsAsciiWhitespace(c) == c \in {32, 9, 10, 12, 13}

\* str::split_ascii_whitespace: the maximal runs of non-whitespace, in order
RECURSIVE SplitFrom(_, _, _)
SplitFrom(s, i, cur) ==
    IF i > Len(s)
    THEN IF cur = <<>> THEN <<>> ELSE <<cur>>
    ELSE IF IsAsciiWhitespace(s[i])
         THEN IF cur = <<>>
              THEN SplitFrom(s, i + 1, <<>>)
              ELSE <<cur>> \o SplitFrom(s, i + 1, <<>>)
         ELSE SplitFrom(s, i + 1, Append(cur, s[i]))

split_ascii_whitespace(s) == SplitFrom(s, 1, <<>>)

IsDigit(c) == c >= 48 /\ c <= 57

\* the digit loop of core::num's from_str_radix for i32, radix 10: the value is
\* accumulated with checked_mul and checked_add (checked_sub after a '-'),
\* and an overflow or a character that is no digit is an Err
RECURSIVE ParseDigits(_, _, _, _)
ParseDigits(s, i, acc, neg) ==
    IF i > Len(s) THEN [ok |-> TRUE, n |-> acc]
    ELSE IF ~IsDigit(s[i]) THEN [ok |-> FALSE, n |-> 0]
    ELSE LET d == s[i] - 48
         IN  IF neg
             THEN IF acc < ((I32_MIN + d) + 9) \div 10
                  THEN [ok |-> FALSE, n |-> 0]
                  ELSE ParseDigits(s, i + 1, acc * 10 - d, neg)
             ELSE IF acc > (I32_MAX - d) \div 10
                  THEN [ok |-> FALSE, n |-> 0]
                  ELSE ParseDigits(s, i + 1, acc * 10 + d, neg)

\* str::parse::<i32>: an optional sign '+' or '-', then one or more decimal
\* digits, the value within i32; anything else is an Err
parse_i32(s) ==
    IF Len(s) = 0 THEN [ok |-> FALSE, n |-> 0]
    ELSE IF s[1] \in {43, 45}
    THEN IF Len(s) = 1 THEN [ok |-> FALSE, n |-> 0]
         ELSE ParseDigits(s, 2, 0, s[1] = 45)
    ELSE ParseDigits(s, 1, 0, FALSE)

\* the decimal digits of a natural number
RECURSIVE NatToString(_)
NatToString(n) ==
    IF n < 10 THEN <<48 + n>>
    ELSE Append(NatToString(n \div 10), 48 + (n % 10))

\* i32::to_string
to_string(n) ==
    IF n >= 0 THEN NatToString(n)
    ELSE <<45>> \o (IF n = I32_MIN
                    THEN Append(NatToString(-(n \div 10) - 1), 48 + 8)
                    ELSE NatToString(-n))

\* char::from_u32: None for a surrogate and for a value above U+10FFFF
from_u32(v) ==
    IF v > 1114111 \/ (v >= 55296 /\ v <= 57343)
    THEN [some |-> FALSE, c |-> 0]
    ELSE [some |-> TRUE, c |-> v]

\* str::repeat of the one-character string " "
RECURSIVE repeat_space(_)
repeat_space(n) == IF n <= 0 THEN <<>> ELSE Append(repeat_space(n - 1), 32)

-----------------------------------------------------------------------------
(* Machine::tokenize *)

\* the name table of the match in tokenize: each primitive's name, as text
PrimitiveName ==
    [Dot      |-> <<46>>,                         \* "."
     Minus    |-> <<45>>,                         \* "-"
     Plus     |-> <<43>>,                         \* "+"
     Star     |-> <<42>>,                         \* "*"
     Slash    |-> <<47>>,                         \* "/"
     Mod      |-> <<109, 111, 100>>,              \* "mod"
     SlashMod |-> <<47, 109, 111, 100>>,          \* "/mod"
     Emit     |-> <<101, 109, 105, 116>>,         \* "emit"
     Drop     |-> <<100, 114, 111, 112>>,         \* "drop"
     Dup      |-> <<100, 117, 112>>,              \* "dup"
     Rot      |-> <<114, 111, 116>>,              \* "rot"
     Spaces   |-> <<115, 112, 97, 99, 101, 115>>, \* "spaces"
     Swap     |-> <<115, 119, 97, 112>>]          \* "swap"

IsPrimitiveName(string) == \E w \in Word : PrimitiveName[w] = string

\* TokenizeWord with the dictionary consulted before the name table and the
\* integer parse
TokenizeWord_dictionary_first(dict, string) ==
    IF string \in DOMAIN dict
    THEN [ok |-> TRUE, tokens |-> dict[string], err |-> NoResult]
    ELSE IF IsPrimitiveName(string)
    THEN [ok |-> TRUE,
          tokens |-> <<Builtin(CHOOSE w \in Word : PrimitiveName[w] = string)>>,
          err |-> NoResult]
    ELSE LET p == parse_i32(string)
         IN  IF p.ok
             THEN [ok |-> TRUE, tokens |-> <<Number(p.n)>>, err |-> NoResult]
             ELSE [ok |-> FALSE, tokens |-> <<>>, err |-> UndefinedWord(string)]

\* the arm `w => match string.parse::<i32>()`, p being what parse returned
TokenizeOther(dict, string, p) ==
    IF p.ok
    THEN [ok |-> TRUE, tokens |-> <<Number(p.n)>>, err |-> NoResult]
    ELSE IF string \in DOMAIN dict
    THEN [ok |-> TRUE, tokens |-> dict[string], err |-> NoResult]
    ELSE [ok |-> FALSE, tokens |-> <<>>, err |-> UndefinedWord(string)]

\* the tokens one word string contributes, or the error that ends tokenize
TokenizeWord(dict, string) ==
    IF IsPrimitiveName(string)
    THEN [ok |-> TRUE,
          tokens |-> <<Builtin(CHOOSE w \in Word : PrimitiveName[w] = string)>>,
          err |-> NoResult]
    ELSE TokenizeOther(dict, string, parse_i32(string))

\* the loop of tokenize, from the i-th word string on; TokenizeNext goes on
\* after the i-th word string gave t
RECURSIVE TokenizeFrom(_, _, _, _), TokenizeNext(_, _, _, _, _)
TokenizeNext(dict, strings, i, tokens, t) ==
    IF t.ok THEN TokenizeFrom(dict, strings, i + 1, tokens \o t.tokens) ELSE t

TokenizeFrom(dict, strings, i, tokens) ==
    IF i > Len(strings) THEN [ok |-> TRUE, tokens |-> tokens, err |-> NoResult]
    ELSE TokenizeNext(dict, strings, i, tokens, TokenizeWord(dict, strings[i]))

tokenize(dict, strings) == TokenizeFrom(dict, strings, 1, <<>>)

-----------------------------------------------------------------------------
(* Machine::eval_expr *)

\* the longest run of spaces the model builds; a line that asks `spaces` for
\* more is not among the inputs explored
MaxRepeat == 4

\* the outcome of one token: go on with the next one (stop = NoResult), or
\* end the fold with an Err or a panic
Continue(st, out) == [stack |-> st, out |-> out, stop |-> NoResult, big |-> FALSE]
Break(st, r)      == [stack |-> st, out |-> <<>>, stop |-> r, big |-> FALSE]

\* an underflow error that does not say which operation failed
Underflow_unnamed(op) == Static("stack underflow")

\* the error of pop! and peek!: concat!($op, ": stack underflow")
Underflow(op) == Static(op \o ": stack underflow")

\* output!: $output = $output + $content + " "
output(content, out) == out \o content \o <<32>>

\* the operator $op of apply! on two i32: its value, or the panic of the
\* arithmetic.  + - * panic on overflow only when overflow checks are
\* compiled in and wrap otherwise; / and % panic in every build on a zero
\* divisor and on I32_MIN by -1.
Value(v)       == [panic |-> FALSE, msg |-> "", val |-> v]
Panics(msg)    == [panic |-> TRUE, msg |-> msg, val |-> 0]

Operator(op, a, b, oc) ==
    CASE op = "+" ->
           IF add_overflows(a, b) /\ oc THEN Panics("attempt to add with overflow")
           ELSE Value(wrapping_add(a, b))
      [] op = "-" ->
           IF sub_overflows(a, b) /\ oc THEN Panics("attempt to subtract with overflow")
           ELSE Value(wrapping_sub(a, b))
      [] op = "*" ->
           IF mul_overflows(a, b) /\ oc THEN Panics("attempt to multiply with overflow")
           ELSE Value(wrapping_mul(a, b))
      [] op = "/" ->
           IF b = 0 THEN Panics("attempt to divide by zero")
           ELSE IF a = I32_MIN /\ b = -1 THEN Panics("attempt to divide with overflow")
           ELSE Value(TruncDiv(a, b))
      [] op = "%" ->
           IF b = 0
           THEN Panics("attempt to calculate the remainder with a divisor of zero")
           ELSE IF a = I32_MIN /\ b = -1
           THEN Panics("attempt to calculate the remainder with overflow")
           ELSE Value(TruncRem(a, b))

Top(st)  == st[Len(st)]
Rest(st) == SubSeq(st, 1, Len(st) - 1)

\* the end of apply!: r is what the operator gave, s2 the stack below the
\* two operands
Applied(s2, r, out) ==
    IF r.panic THEN Break(s2, Panic(r.msg))
    ELSE Continue(Append(s2, r.val), out)

\* an apply! that looks for both operands before it pops either
apply_checked(name, op, st, out, oc) ==
    IF Len(st) < 2 THEN Break(st, Underflow(name))
    ELSE Applied(Rest(Rest(st)), Operator(op, Top(Rest(st)), Top(st), oc), out)

\* apply!: let o = pop!; let r = pop! $op o; push(r)
apply(name, op, st, out, oc) ==
    IF Len(st) = 0 THEN Break(st, Underflow(name))
    ELSE IF Len(st) = 1 THEN Break(Rest(st), Underflow(name))
    ELSE Applied(Rest(Rest(st)), Operator(op, Top(Rest(st)), Top(st), oc), out)

\* the two pushes of SlashMod: m is what a % b gave, d what a / b gave
SlashModded(s2, m, d, out) ==
    IF m.panic THEN Break(s2, Panic(m.msg))
    ELSE IF d.panic THEN Break(Append(s2, m.val), Panic(d.msg))
    ELSE Continue(Append(Append(s2, m.val), d.val), out)

\* Builtin(SlashMod): let b = pop!; let a = pop!; push(a % b); push(a / b)
slash_mod(st, out) ==
    IF Len(st) = 0 THEN Break(st, Underflow("slash-mod"))
    ELSE IF Len(st) = 1 THEN Break(Rest(st), Underflow("slash-mod"))
    ELSE SlashModded(Rest(Rest(st)),
                     Operator("%", Top(Rest(st)), Top(st), FALSE),
                     Operator("/", Top(Rest(st)), Top(st), FALSE),
                     out)

\* a rot that moves the top element below the two under it
rot_backwards(st, out) ==
    IF Len(st) < 3 THEN Break(st, Static("rot: stack underflow"))
    ELSE Continue(SubSeq(st, 1, Len(st) - 3)
                  \o <<st[Len(st)], st[Len(st) - 2], st[Len(st) - 1]>>, out)

\* Builtin(Rot)
rot(st, out) ==
    IF Len(st) < 3 THEN Break(st, Static("rot: stack underflow"))
    ELSE LET i  == Len(st) - 2      \* Vec index len - 3, counted from 1
             n3 == st[i]
         IN  Continue(Append(SubSeq(st, 1, i - 1) \o SubSeq(st, i + 1, Len(st)), n3), out)

\* Builtin(Swap)
swap(st, out) ==
    IF Len(st) = 0 THEN Break(st, Underflow("swap"))
    ELSE LET a  == Top(st)
             s1 == Rest(st)
         IN  IF Len(s1) = 0 THEN Break(s1, Underflow("swap"))
             ELSE Continue(Append(Append(Rest(s1), a), Top(s1)), out)

\* an emit that puts the value back when it is not a character
emit_restoring(st, out) ==
    IF Len(st) = 0 THEN Break(st, Underflow("emit"))
    ELSE IF Top(st) < 0 THEN Break(st, Static("emit: out of bounds"))
    ELSE IF ~from_u32(Top(st)).some THEN Break(st, UnicodeInvalid(Top(st)))
    ELSE Continue(Rest(st), output(<<from_u32(Top(st)).c>>, out))

\* Builtin(Emit)
emit(st, out) ==
    IF Len(st) = 0 THEN Break(st, Underflow("emit"))
    ELSE LET v == Top(st)
         IN  IF v < 0                       \* u32::try_from fails
             THEN Break(Rest(st), Static("emit: out of bounds"))
             ELSE IF ~from_u32(v).some
             THEN Break(Rest(st), UnicodeInvalid(v))
             ELSE Continue(Rest(st), output(<<from_u32(v).c>>, out))

\* Builtin(Spaces): " ".repeat(n as usize).  A negative n cast to usize is
\* at least 2^63, and repeat panics allocating that many bytes.
spaces(st, out) ==
    IF Len(st) = 0 THEN Break(st, Underflow("spaces"))
    ELSE LET n == Top(st)
         IN  IF n < 0 THEN Break(Rest(st), Panic("capacity overflow"))
             ELSE IF n > MaxRepeat
             THEN [stack |-> Rest(st), out |-> out, stop |-> NoResult, big |-> TRUE]
             ELSE Continue(Rest(st), output(repeat_space(n), out))

\* the closure of try_fold: one token against the stack
Execute(token, st, out, oc) ==
    IF token.t = "Number" THEN Continue(Append(st, token.n), out)
    ELSE CASE token.w = "Dot" ->
                IF Len(st) = 0 THEN Break(st, Underflow("dot"))
                ELSE Continue(Rest(st), output(to_string(Top(st)), out))
           [] token.w = "Drop" ->
                IF Len(st) = 0 THEN Break(st, Underflow("drop"))
                ELSE Continue(Rest(st), out)
           [] token.w = "Dup" ->
                IF Len(st) = 0 THEN Break(st, Underflow("dup"))
                ELSE Continue(Append(st, Top(st)), out)
           [] token.w = "Minus"    -> apply("minus", "-", st, out, oc)
           [] token.w = "Mod"      -> apply("mod", "%", st, out, oc)
           [] token.w = "Rot"      -> rot(st, out)
           [] token.w = "Plus"     -> apply("plus", "+", st, out, oc)
           [] token.w = "Slash"    -> apply("slash", "/", st, out, oc)
           [] token.w = "SlashMod" -> slash_mod(st, out)
           [] token.w = "Star"     -> apply("star", "*", st, out, oc)
           [] token.w = "Emit"     -> emit(st, out)
           [] token.w = "Spaces"   -> spaces(st, out)
           [] token.w = "Swap"     -> swap(st, out)

\* Iterator::try_fold over the tokens, from the i-th on: stops at the first
\* token that does not return Ok; Folded goes on after the i-th token gave x
RECURSIVE try_fold(_, _, _, _, _), Folded(_, _, _, _)
Folded(tokens, i, x, oc) ==
    IF x.big THEN [stack |-> x.stack, result |-> NoResult, big |-> TRUE]
    ELSE IF x.stop # NoResult
    THEN [stack |-> x.stack, result |-> x.stop, big |-> FALSE]
    ELSE try_fold(tokens, i + 1, x.stack, x.out, oc)

try_fold(tokens, i, st, out, oc) ==
    IF i > Len(tokens) THEN [stack |-> st, result |-> Ok(out), big |-> FALSE]
    ELSE Folded(tokens, i, Execute(tokens[i], st, out, oc), oc)

\* what eval_expr leaves and returns, f being what the fold gave
Evaluated(dict, f) ==
    [dictionary |-> dict, stack |-> f.stack, result |-> f.result, big |-> f.big]

\* eval_expr after `self.tokenize(...)?`, t being what tokenize returned
Expression(dict, st, t, oc) ==
    IF ~t.ok
    THEN [dictionary |-> dict, stack |-> st, result |-> t.err, big |-> FALSE]
    ELSE Evaluated(dict, try_fold(t.tokens, 1, st, <<>>, oc))

\* eval_expr that restores the stack when a token fails
eval_expr_rollback(dict, st, text, oc) ==
    LET t == tokenize(dict, split_ascii_whitespace(text))
    IN  IF ~t.ok
        THEN [dictionary |-> dict, stack |-> st, result |-> t.err, big |-> FALSE]
        ELSE LET f == try_fold(t.tokens, 1, st, <<>>, oc)
             IN  [dictionary |-> dict,
                  stack |-> IF f.result.kind = "Ok" THEN f.stack ELSE st,
                  result |-> f.result, big |-> f.big]

\* eval_expr that executes the tokens of the words before the first word it
\* cannot tokenize, and only then returns that word's error
eval_expr_interleaved(dict, st, text, oc) ==
    LET words == split_ascii_whitespace(text)
        k == CHOOSE n \in 0..Len(words) :
                 /\ tokenize(dict, SubSeq(words, 1, n)).ok
                 /\ n < Len(words) => ~tokenize(dict, SubSeq(words, 1, n + 1)).ok
        f == try_fold(tokenize(dict, SubSeq(words, 1, k)).tokens, 1, st, <<>>, oc)
    IN  [dictionary |-> dict, stack |-> f.stack,
         result |-> IF k < Len(words) /\ f.result.kind = "Ok"
                    THEN tokenize(dict, words).err ELSE f.result,
         big |-> f.big]

eval_expr(dict, st, text, oc) ==
    Expression(dict, st, tokenize(dict, split_ascii_whitespace(text)), oc)

-----------------------------------------------------------------------------
(* Machine::eval_def, Machine::eval *)

\* insert that stores the value under every key
insert_every_key(dict, name, tokens) ==
    [k \in DOMAIN dict \cup {name} |-> tokens]

\* insert that extends the entry already there instead of replacing it
insert_extending(dict, name, tokens) ==
    [k \in DOMAIN dict \cup {name} |->
        IF k = name
        THEN (IF name \in DOMAIN dict THEN dict[name] \o tokens ELSE tokens)
        ELSE dict[k]]

\* HashMap::insert
insert(dict, name, tokens) ==
    [k \in DOMAIN dict \cup {name} |-> IF k = name THEN tokens ELSE dict[k]]

\* eval_def that lets a missing name through as the empty name
eval_def_unchecked(dict, st, text) ==
    LET words == split_ascii_whitespace(text)
        name  == IF Len(words) = 0 THEN <<>> ELSE words[1]
        t     == tokenize(dict, SubSeq(words, 2, Len(words)))
    IN  IF ~t.ok
        THEN [dictionary |-> dict, stack |-> st, result |-> t.err, big |-> FALSE]
        ELSE [dictionary |-> [k \in DOMAIN dict \cup {name} |->
                                 IF k = name THEN t.tokens ELSE dict[k]],
              stack |-> st, result |-> Ok(<<>>), big |-> FALSE]

\* a definition that empties the entry of the name when the body does not
\* tokenize
Define_clobbering(dict, st, name, t) ==
    IF ~t.ok
    THEN [dictionary |-> insert(dict, name, <<>>), stack |-> st,
          result |-> t.err, big |-> FALSE]
    ELSE [dictionary |-> insert(dict, name, t.tokens), stack |-> st,
          result |-> Ok(<<>>), big |-> FALSE]

\* the last statement of eval_def, t being what tokenize returned for the
\* body: self.dictionary.insert(name.into(), self.tokenize(words)?)
Define(dict, st, name, t) ==
    IF ~t.ok
    THEN [dictionary |-> dict, stack |-> st, result |-> t.err, big |-> FALSE]
    ELSE [dictionary |-> insert(dict, name, t.tokens), stack |-> st,
          result |-> Ok(<<>>), big |-> FALSE]

\* eval_def on the words of the line after the marker
DefineWords(dict, st, words) ==
    IF Len(words) = 0
    THEN [dictionary |-> dict, stack |-> st,
          result |-> Static("no name specified for definition"), big |-> FALSE]
    ELSE Define(dict, st, words[1], tokenize(dict, SubSeq(words, 2, Len(words))))

eval_def(dict, st, text) == DefineWords(dict, st, split_ascii_whitespace(text))

\* str::strip_prefix(':')
HasDefPrefix(text) == Len(text) > 0 /\ text[1] = 58

\* eval that hands the whole line, marker included, to eval_def
eval_unstripped(dict, st, text, oc) ==
    IF HasDefPrefix(text)
    THEN eval_def(dict, st, text)
    ELSE eval_expr(dict, st, text, oc)

eval(dict, st, text, oc) ==
    IF HasDefPrefix(text)
    THEN eval_def(dict, st, SubSeq(text, 2, Len(text)))
    ELSE eval_expr(dict, st, text, oc)

-----------------------------------------------------------------------------
(* impl Default for Machine *)

default_dictionary ==
    (<<115, 112, 97, 99, 101>> :> <<Number(32), Builtin("Emit")>>)        \* "space"
    @@ (<<99, 114>> :> <<Number(13), Builtin("Emit"),
                         Number(10), Builtin("Emit")>>)                   \* "cr"
    @@ (<<111, 118, 101, 114>> :> <<Builtin("Swap"), Builtin("Dup"),
                                    Builtin("Rot"), Builtin("Swap")>>)    \* "over"

-----------------------------------------------------------------------------
(* the state machine: one Machine, and calls of eval on it *)

\* how many calls of eval a behaviour makes
MaxCalls == 3

Snapshot == [dictionary |-> dictionary, stack |-> stack,
             phrase |-> phrase, result |-> result]

Range(f) == {f[i] : i \in DOMAIN f}

\* the history of definitions after a call of eval on `text` that ended with r
Recorded(name, body) ==
    [w \in DOMAIN source \cup {name} |->
        IF w = name THEN [body |-> body, fresh |-> TRUE]
        ELSE [body |-> source[w].body,
              fresh |-> source[w].fresh /\ name \notin Range(source[w].body)]]

RecordWords(words) ==
    IF Len(words) > 0 THEN Recorded(words[1], SubSeq(words, 2, Len(words)))
    ELSE source

Record(text, r) ==
    IF HasDefPrefix(text) /\ r.kind = "Ok"
    THEN RecordWords(split_ascii_whitespace(SubSeq(text, 2, Len(text))))
    ELSE source

\* Machine::default(): the bootstrap dictionary and an empty stack
Init ==
    /\ dictionary = default_dictionary
    /\ stack = <<>>
    /\ phrase = <<>>
    /\ result = NoResult
    /\ overflow_checks \in BOOLEAN
    /\ calls = 0
    /\ before = [dictionary |-> default_dictionary, stack |-> <<>>,
                 phrase |-> <<>>, result |-> NoResult]
    /\ source = <<>>

\* the Machine can be called with `text`: the program has not panicked, and
\* the call is within the bounds of the model
CanEval(text) ==
    /\ result.kind # "Panic"
    /\ calls < MaxCalls
    /\ ~eval(dictionary, stack, text, overflow_checks).big

\* the call machine.eval(text), r being what it leaves and returns
Call(text, r) ==
    /\ ~r.big
    /\ dictionary' = r.dictionary
    /\ stack' = r.stack
    /\ result' = r.result
    /\ source' = Record(text, r.result)
    /\ phrase' = text
    /\ before' = Snapshot
    /\ calls' = calls + 1
    /\ UNCHANGED overflow_checks

\* one call machine.eval(text).  A panic ends the program.
Eval(text) ==
    /\ result.kind # "Panic"
    /\ calls < MaxCalls
    /\ Call(text, eval(dictionary, stack, text, overflow_checks))

-----------------------------------------------------------------------------
(* input lines *)

\* the words joined by single spaces
RECURSIVE Join(_)
Join(words) ==
    IF Len(words) = 0 THEN <<>>
    ELSE IF Len(words) = 1 THEN words[1]
    ELSE words[1] \o <<32>> \o Join(SubSeq(words, 2, Len(words)))

\* the line ": name body..."
DefLine(name, body) == <<58, 32>> \o Join(<<name>> \o body)

w_a    == <<97>>
w_b    == <<98>>
w_sq   == <<115, 113>>
w_foo  == <<102, 111, 111>>
w_0    == <<48>>
w_1    == <<49>>
w_2    == <<50>>
w_4    == <<52>>
w_5    == <<53>>
w_dot  == PrimitiveName["Dot"]
w_plus == PrimitiveName["Plus"]
w_minus == PrimitiveName["Minus"]
w_star == PrimitiveName["Star"]
w_dup  == PrimitiveName["Dup"]

\* definitions and their uses: redefinition, self-reference, names that are
\* primitive names or integer literals, a name that begins with the marker,
\* bodies with an undefined word, and lines with the marker and no name
DefPhrases ==
    {DefLine(n, b) : n \in {w_a, w_b},
                     b \in {<<>>, <<w_1>>, <<w_2>>, <<w_a, w_dot>>, <<w_a, w_1>>,
                            <<w_foo>>}}
    \cup {DefLine(w_plus, <<w_minus>>), DefLine(w_plus, <<w_a, w_1>>),
          DefLine(w_5, <<w_1>>),
          DefLine(w_sq, <<w_dup, w_star>>),
          DefLine(<<58, 97>>, <<w_1>>), DefLine(w_b, <<<<58, 97>>>>)}
    \cup {<<58>>, <<58, 32>>, <<58>> \o w_a \o <<32>> \o w_1}
    \cup {Join(ws) : ws \in {<<w_a>>, <<w_b>>, <<w_5>>, <<w_1, w_2, w_plus>>,
                             <<w_4, w_sq, w_dot>>, <<w_sq>>, <<w_dup, w_star>>,
                             <<w_a, w_dot>>, <<w_foo>>, <<w_dot>>}}

Next == \E text \in DefPhrases : Eval(text)

Spec == Init /\ [][Next]_vars

w_MAX  == <<50, 49, 52, 55, 52, 56, 51, 54, 52, 55>>          \* "2147483647"
w_MIN  == <<45, 50, 49, 52, 55, 52, 56, 51, 54, 52, 56>>      \* "-2147483648"
w_m1   == <<45, 49>>                                          \* "-1"
w_3    == <<51>>
w_7    == <<55>>
w_42   == <<52, 50>>
w_emit == PrimitiveName["Emit"]

\* expressions: every primitive as a line of its own, integers up to the
\* ends of i32, code points at the ends of the ranges char::from_u32 accepts
\* and rejects, the bootstrap words, and lines that fail part-way
ExprPhrases ==
    {PrimitiveName[w] : w \in Word}
    \cup {w_0, w_m1, w_2, w_7, w_42, w_MAX, w_MIN}
    \cup {Join(<<n, w_emit>>) :
            n \in {w_42,
                   <<53, 53, 50, 57, 53>>,                    \* "55295"
                   <<53, 53, 50, 57, 54>>,                    \* "55296"
                   <<53, 55, 51, 52, 51>>,                    \* "57343"
                   <<53, 55, 51, 52, 52>>,                    \* "57344"
                   <<49, 49, 49, 52, 49, 49, 49>>,            \* "1114111"
                   <<49, 49, 49, 52, 49, 49, 50>>}}           \* "1114112"
    \cup {Join(ws) : ws \in {<<w_1, w_0, PrimitiveName["Slash"]>>,
                             <<w_1, w_2, w_foo>>,
                             <<w_1, w_plus>>,
                             <<w_1, w_2, PrimitiveName["Rot"]>>,
                             <<w_1, w_2, w_3, PrimitiveName["Rot"]>>,
                             <<w_3, PrimitiveName["Spaces"]>>,
                             <<<<111, 118, 101, 114>>>>,      \* "over"
                             <<<<115, 112, 97, 99, 101>>>>,   \* "space"
                             <<<<99, 114>>>>}}                \* "cr"

NextExpr == \E text \in ExprPhrases : Eval(text)

SpecExpr == Init /\ [][NextExpr]_vars

\* "over", the bootstrap word
w_over == <<111, 118, 101, 114>>

\* the values the stack starts with: the ends of i32, zero, and small values
\* of both signs
StackValues == {I32_MIN, -7, -1, 0, 2, 3, I32_MAX}

\* stacks of up to three elements; every one of them is the stack of a
\* Machine after a line of integer literals
StartStacks ==
    {<<>>}
    \cup {<<a>> : a \in StackValues}
    \cup {<<a, b>> : a \in StackValues, b \in StackValues}
    \cup {<<5, a, b>> : a \in StackValues, b \in StackValues}

\* how many primitives a behaviour runs on a starting stack
MaxOps == 2

\* a Machine with the bootstrap dictionary whose stack was filled by a line
\* of integer literals
InitStack ==
    /\ dictionary = default_dictionary
    /\ stack \in StartStacks
    /\ phrase = <<>>
    /\ result = NoResult
    /\ overflow_checks \in BOOLEAN
    /\ calls = 0
    /\ before = [dictionary |-> default_dictionary, stack |-> stack,
                 phrase |-> <<>>, result |-> NoResult]
    /\ source = <<>>

\* the lines that are one primitive, or the bootstrap word over
OpPhrases == {PrimitiveName[w] : w \in Word} \cup {w_over}

\* one call machine.eval(text) on a line that is one word
Operate(text) ==
    /\ result.kind # "Panic"
    /\ calls < MaxOps
    /\ Call(text, eval(dictionary, stack, text, overflow_checks))

NextStack == \E text \in OpPhrases : Operate(text)

SpecStack == InitStack /\ [][NextStack]_vars

-----------------------------------------------------------------------------
(* what the claims talk about, read off the last call *)

Called == calls > 0

\* the last call was given a definition line; its words after the marker
IsDef     == Called /\ HasDefPrefix(phrase)
DefWords  == split_ascii_whitespace(SubSeq(phrase, 2, Len(phrase)))
DefName   == IF Len(DefWords) > 0 THEN DefWords[1] ELSE <<>>
DefBody   == SubSeq(DefWords, 2, Len(DefWords))
DefOk     == IsDef /\ result.kind = "Ok"

\* a word the tokenizer resolves through the dictionary, if at all
IsDictionaryWord(w) == ~IsPrimitiveName(w) /\ ~parse_i32(w).ok

\* what evaluating the line `text` returns and leaves on the stack
Run(dict, st, text) ==
    LET r == eval(dict, st, text, overflow_checks)
    IN  [result |-> r.result, stack |-> r.stack]

\* the stacks a word is tried on
ProbeStacks == {<<>>, <<3>>, <<3, 4>>, <<6, 0, -2>>}

-----------------------------------------------------------------------------
(* C3 *)

\* C3: snapshot.  When a word a that already has an entry is defined again,
\* every other word b whose body mentions a keeps its stored token sequence,
\* and evaluating b returns the same result and leaves the same stack as
\* before the redefinition.
C3_Snapshot ==
    (DefOk /\ DefName \in DOMAIN before.dictionary) =>
        \A b \in DOMAIN source \ {DefName} :
            DefName \in Range(source[b].body) =>
                /\ dictionary[b] = before.dictionary[b]
                /\ \A st \in ProbeStacks :
                       Run(dictionary, st, b) = Run(before.dictionary, st, b)

\* the example of the specification: after ": a 1", ": b a ." and ": a 2",
\* b is still 1 .
C3_Witness ==
    /\ DefOk /\ DefName = w_a
    /\ w_a \in DOMAIN before.dictionary
    /\ before.dictionary[w_a] = <<Number(1)>>
    /\ dictionary[w_a] = <<Number(2)>>
    /\ w_b \in DOMAIN source /\ source[w_b].body = <<w_a, w_dot>>
    /\ dictionary[w_b] = <<Number(1), Builtin("Dot")>>
    /\ Run(dictionary, <<>>, w_b).result = Ok(<<49, 32>>)

-----------------------------------------------------------------------------
(* C4 *)

\* the same definition line was evaluated twice in a row, successfully
DefinedTwice ==
    /\ calls >= 2 /\ DefOk
    /\ before.phrase = phrase /\ before.result.kind = "Ok"

\* the body of the line mentions the name it defines, and the tokenizer
\* resolves that name through the dictionary
MentionsItself == DefName \in Range(DefBody) /\ IsDictionaryWord(DefName)

\* C4 as stated: evaluating any successful definition line a second time
\* leaves the entry of its name as the first evaluation stored it.
C4_Idempotent_AsStated ==
    DefinedTwice => dictionary[DefName] = before.dictionary[DefName]

\* C4, amended: evaluating a successful definition line a second time leaves
\* the entry of its name as the first evaluation stored it, provided the
\* body does not mention the name being defined as a dictionary word.
C4_Idempotent ==
    (DefinedTwice /\ ~MentionsItself) =>
        dictionary[DefName] = before.dictionary[DefName]

C4_Witness ==
    /\ DefinedTwice /\ ~MentionsItself
    /\ DefBody = <<w_a, w_dot>> /\ DefName = w_b
    /\ dictionary[w_b] # <<>>

-----------------------------------------------------------------------------
(* C5 *)

\* words to tokenize: primitive names, integer literals with and without a
\* sign, dictionary names and an undefined word
ProbeWords ==
    {PrimitiveName[w] : w \in Word}
    \cup {w_5, w_1, w_a, w_b, w_foo, <<43, 53>>, <<45, 53>>, <<48, 53>>}

\* C5: whatever the dictionary holds, a primitive name tokenizes to its
\* primitive, otherwise a word that parses as an i32 tokenizes to that
\* number, otherwise a dictionary name to its entry, and anything else is
\* the undefined-word error; and the lines "5" and "1 2 +" push 5 and 3
\* even when the dictionary has entries named "5" and "+".
C5_Precedence ==
    /\ \A w \in DOMAIN dictionary \cup ProbeWords :
          LET t == tokenize(dictionary, <<w>>)
          IN  IF \E p \in Word : PrimitiveName[p] = w
              THEN t.ok /\ \E p \in Word : PrimitiveName[p] = w /\ t.tokens = <<Builtin(p)>>
              ELSE IF parse_i32(w).ok
              THEN t.ok /\ t.tokens = <<Number(parse_i32(w).n)>>
              ELSE IF w \in DOMAIN dictionary
              THEN t.ok /\ t.tokens = dictionary[w]
              ELSE ~t.ok /\ t.err = UndefinedWord(w)
    /\ (Called /\ phrase = w_5) =>
          result = Ok(<<>>) /\ stack = Append(before.stack, 5)
    /\ (Called /\ phrase = Join(<<w_1, w_2, w_plus>>)) =>
          result = Ok(<<>>) /\ stack = Append(before.stack, 3)

\* "+" and "5" both have dictionary entries, and the line "5" was evaluated
C5_Witness ==
    /\ w_plus \in DOMAIN dictionary
    /\ w_5 \in DOMAIN dictionary /\ dictionary[w_5] = <<Number(1)>>
    /\ Called /\ phrase = w_5 /\ stack = <<5>>

-----------------------------------------------------------------------------
(* C6 *)

\* w was defined by ": w B", is a dictionary word, and B does not mention w;
\* the lines `w` and `B` are expression lines (neither begins with the
\* marker ":", which would make the line a definition)
DefinedPlainly(w) ==
    /\ w \in DOMAIN source
    /\ IsDictionaryWord(w)
    /\ w \notin Range(source[w].body)
    /\ ~HasDefPrefix(w)
    /\ ~HasDefPrefix(Join(source[w].body))

\* the line `w` and the line `B` return the same and leave the same stack
BehavesAsBody(w) ==
    \A st \in ProbeStacks \cup {stack} :
        Run(dictionary, st, w) = Run(dictionary, st, Join(source[w].body))

\* C6 as stated: a word defined by ": w B" behaves as the line B, also after
\* any later definitions of other words.
C6_WordIsBody_AsStated ==
    \A w \in DOMAIN source : DefinedPlainly(w) => BehavesAsBody(w)

\* C6, amended: a word defined by ": w B" behaves as the line B, also after
\* later definitions of other words that do not occur in B.
C6_WordIsBody ==
    \A w \in DOMAIN source :
        (DefinedPlainly(w) /\ source[w].fresh) => BehavesAsBody(w)

\* ": sq dup *", then a definition of another word, then "4 sq ." prints
\* "16 " and leaves the stack as it was
C6_Witness ==
    /\ DefinedPlainly(w_sq) /\ source[w_sq].fresh
    /\ \E w \in DOMAIN source : w # w_sq
    /\ phrase = Join(<<w_4, w_sq, w_dot>>)
    /\ result = Ok(<<49, 54, 32>>)
    /\ stack = before.stack

-----------------------------------------------------------------------------
(* C9 *)

\* C9: a line with the marker and no word after it fails with the
\* malformed-definition error and changes neither dictionary nor stack; a
\* line with a name and no body succeeds and stores the empty sequence.
C9_NoName ==
    /\ (IsDef /\ Len(DefWords) = 0) =>
          /\ result = Static("no name specified for definition")
          /\ dictionary = before.dictionary
          /\ stack = before.stack
    /\ (IsDef /\ Len(DefWords) = 1) =>
          /\ result = Ok(<<>>)
          /\ DefName \in DOMAIN dictionary
          /\ dictionary[DefName] = <<>>

\* ": a" stored the empty sequence, then ": " failed
C9_Witness ==
    /\ calls >= 2
    /\ before.phrase = DefLine(w_a, <<>>) /\ before.result = Ok(<<>>)
    /\ phrase = <<58, 32>> /\ result.kind = "Err"
    /\ w_a \in DOMAIN dictionary /\ dictionary[w_a] = <<>>

-----------------------------------------------------------------------------
(* C10 *)

\* C10: a call on a line starting with ":" leaves the stack unchanged; when
\* it succeeds it returns the empty string and every entry other than that
\* of the defined name is as before.
C10_DefFrame ==
    IsDef =>
        /\ stack = before.stack
        /\ result.kind = "Ok" =>
              /\ result = Ok(<<>>)
              /\ DOMAIN dictionary \subseteq DOMAIN before.dictionary \cup {DefName}
              /\ \A k \in DOMAIN before.dictionary \ {DefName} :
                     k \in DOMAIN dictionary /\ dictionary[k] = before.dictionary[k]

\* a successful definition with a non-empty stack and other entries around,
\* after a failed one
C10_Witness ==
    /\ DefOk /\ stack # <<>> /\ stack = before.stack
    /\ dictionary[DefName] # <<>>
    /\ DefName \notin DOMAIN before.dictionary

-----------------------------------------------------------------------------
(* the last call, when it was given an expression line *)

IsExpr == Called /\ ~HasDefPrefix(phrase)

\* the tokens of the line, as the call found the dictionary
LineTokens == tokenize(before.dictionary, split_ascii_whitespace(phrase))

\* the fold over the first k tokens of the line, from the stack as the call
\* found it
After(k) ==
    try_fold(SubSeq(LineTokens.tokens, 1, k), 1, before.stack, <<>>, overflow_checks)

\* the k-th token of the line is a builtin among ws, and the tokens before
\* it all succeeded
Reaches(k, ws) ==
    /\ k \in 1..Len(LineTokens.tokens)
    /\ LineTokens.tokens[k].t = "Builtin" /\ LineTokens.tokens[k].w \in ws
    /\ After(k - 1).result.kind = "Ok"

-----------------------------------------------------------------------------
(* C1 *)

\* C1: every call of eval returns a success value or an error value; no
\* line makes it crash.
C1_EvalReturns == Called => result.kind \in {"Ok", "Err"}

-----------------------------------------------------------------------------
(* C2 *)

\* C2: when /, mod or /mod runs with 0 on top of at least two elements, eval
\* returns an error value and nothing is pushed: both operands are gone and
\* the stack below them is as it was.
C2_DivisionByZero ==
    (IsExpr /\ LineTokens.ok) =>
        \A k \in 1..Len(LineTokens.tokens) :
            (/\ Reaches(k, {"Slash", "Mod", "SlashMod"})
             /\ Len(After(k - 1).stack) >= 2
             /\ Top(After(k - 1).stack) = 0) =>
                /\ result.kind = "Err"
                /\ stack = Rest(Rest(After(k - 1).stack))

-----------------------------------------------------------------------------
(* C7 *)

IsScalarValue(v) == (v >= 0 /\ v <= 55295) \/ (v >= 57344 /\ v <= 1114111)

\* C7: a line that is the single word emit, run with a Unicode scalar value
\* v on top of the stack, pops v and returns exactly the one character v;
\* and the line "42 emit" returns exactly "*".
C7_EmitOneChar ==
    /\ (/\ IsExpr /\ phrase = w_emit
        /\ Len(before.stack) > 0 /\ IsScalarValue(Top(before.stack))) =>
           /\ result = Ok(<<Top(before.stack)>>)
           /\ stack = Rest(before.stack)
    /\ (IsExpr /\ phrase = Join(<<w_42, w_emit>>)) =>
           /\ result = Ok(<<42>>)
           /\ stack = before.stack

-----------------------------------------------------------------------------
(* C8 *)

\* how many elements a primitive takes off the stack before it can fail:
\* two for the binary operators and swap, one for . drop emit spaces, none
\* for dup (which peeks) and rot (which checks the length first)
Pops(token) ==
    IF token.t = "Number" THEN 0
    ELSE IF token.w \in {"Minus", "Mod", "Plus", "Slash", "SlashMod", "Star", "Swap"} THEN 2
    ELSE IF token.w \in {"Dot", "Drop", "Emit", "Spaces"} THEN 1
    ELSE 0

Min(a, b) == IF a < b THEN a ELSE b

\* the k-th token is the first one that does not succeed
FailsAt(k) ==
    /\ k \in 1..Len(LineTokens.tokens)
    /\ After(k - 1).result.kind = "Ok"
    /\ After(k).result.kind # "Ok"

\* C8: no rollback.  When the tokens of an expression line fail at token k,
\* the stack afterwards is the stack that tokens 1..k-1 produced, less the
\* elements the failing token popped before it failed; no later token has
\* acted; and when the failure was returned as an error value, the Machine
\* takes further calls of eval from this state.
C8_NoRollback ==
    (IsExpr /\ LineTokens.ok /\ result.kind \in {"Err", "Panic"}) =>
        /\ \E k \in 1..Len(LineTokens.tokens) :
              /\ FailsAt(k)
              /\ LET S == After(k - 1).stack
                     n == Min(Len(S), Pops(LineTokens.tokens[k]))
                 IN  stack = SubSeq(S, 1, Len(S) - n)
        /\ (result.kind = "Err" /\ calls < MaxCalls) => CanEval(w_0)

\* "1 2 rot" on an empty stack: 1 and 2 were pushed, then rot failed, and
\* the stack is not the one the call began with
C8_Witness ==
    /\ IsExpr /\ phrase = Join(<<w_1, w_2, PrimitiveName["Rot"]>>)
    /\ before.stack = <<>>
    /\ result = Static("rot: stack underflow")
    /\ stack = <<1, 2>>

-----------------------------------------------------------------------------
(* the last token of an expression line *)

\* the last token of the line is a builtin among ws, and the tokens before
\* it all succeeded
LastIs(ws) ==
    /\ IsExpr /\ LineTokens.ok
    /\ Reaches(Len(LineTokens.tokens), ws)

\* the stack the last token of the line found
Found == After(Len(LineTokens.tokens) - 1).stack

-----------------------------------------------------------------------------
(* C11 *)

\* C11: the bootstrap word over, on every stack of at least two elements,
\* pushes a copy of the second element from the top, leaves the elements
\* that were on the stack in place and in order, and produces no output.
C11_Over ==
    (/\ IsExpr /\ phrase = w_over
     /\ before.dictionary[w_over] = default_dictionary[w_over]
     /\ Len(before.stack) >= 2) =>
        /\ result = Ok(<<>>)
        /\ stack = Append(before.stack, before.stack[Len(before.stack) - 1])

\* over on 5 -7 3 has left 5 -7 3 -7
C11_Witness ==
    /\ IsExpr /\ phrase = w_over
    /\ before.stack = <<5, -7, 3>>
    /\ stack = <<5, -7, 3, -7>>
    /\ result = Ok(<<>>)

-----------------------------------------------------------------------------
(* C12 *)

\* the word of the last token of the line
LastWord == LineTokens.tokens[Len(LineTokens.tokens)].w

\* the five binary operators, by token
ArithOp == [Plus |-> "+", Minus |-> "-", Star |-> "*", Slash |-> "/", Mod |-> "%"]

\* the value a OP b is a signed 32-bit integer (b # 0 for / and mod)
InRange(op, a, b) ==
    CASE op = "+" -> ~add_overflows(a, b)
      [] op = "-" -> ~sub_overflows(a, b)
      [] op = "*" -> ~mul_overflows(a, b)
      [] op = "/" -> ~(a = I32_MIN /\ b = -1)
      [] op = "%" -> TRUE

\* the value a OP b where it is in range, / and mod truncating toward zero
ValueOf(op, a, b) ==
    CASE op = "+" -> a + b
      [] op = "-" -> a - b
      [] op = "*" -> a * b
      [] op = "/" -> TruncDiv(a, b)
      [] op = "%" -> IF b = -1 THEN 0 ELSE TruncRem(a, b)

\* C12: for all i32 a and b (b # 0 for / and mod), a line ending in one of
\* + - * / mod, run with a below b on top of the stack, pops both and pushes
\* the value a OP b; the stack below the operands is unchanged and every
\* value on the stack is a signed 32-bit integer.
C12_Arithmetic ==
    (/\ LastIs(DOMAIN ArithOp)
     /\ Len(Found) >= 2
     /\ (LastWord \in {"Slash", "Mod"} => Top(Found) # 0)) =>
        LET a  == Top(Rest(Found))
            b  == Top(Found)
            op == ArithOp[LastWord]
        IN  /\ result.kind = "Ok"
            /\ InRange(op, a, b)
            /\ stack = Append(Rest(Rest(Found)), ValueOf(op, a, b))
            /\ \A i \in 1..Len(stack) : IsI32(stack[i])

-----------------------------------------------------------------------------
(* C13 *)

\* what the single token w leaves when run on the stack st
Single(w, st) == Execute(Builtin(w), st, <<>>, overflow_checks)

\* C13: for all i32 a and b with b # 0, a line ending in /mod, run with a
\* below b on top of the stack, leaves two values in place of a and b: the
\* remainder below and the quotient on top, which are the single values
\* that mod and / leave from the same stack.
C13_SlashMod ==
    (LastIs({"SlashMod"}) /\ Len(Found) >= 2 /\ Top(Found) # 0) =>
        /\ result.kind = "Ok"
        /\ Single("Mod", Found).stop = NoResult
        /\ Single("Slash", Found).stop = NoResult
        /\ Single("Mod", Found).stack = Append(Rest(Rest(Found)), stack[Len(stack) - 1])
        /\ Single("Slash", Found).stack = Append(Rest(Rest(Found)), stack[Len(stack)])
        /\ Len(stack) = Len(Found)
        /\ SubSeq(stack, 1, Len(stack) - 2) = Rest(Rest(Found))

-----------------------------------------------------------------------------
(* C14 *)

\* C14: when a line ends in emit and the value emit pops is negative, above
\* the largest code point, or a surrogate, eval returns an error value (out
\* of bounds for a negative value, invalid unicode carrying the value
\* otherwise), the line returns no output, and the popped value is not put
\* back on the stack.
C14_EmitFails ==
    (LastIs({"Emit"}) /\ Len(Found) >= 1 /\ ~IsScalarValue(Top(Found))) =>
        /\ result.kind = "Err"
        /\ result = IF Top(Found) < 0 THEN Static("emit: out of bounds")
                    ELSE UnicodeInvalid(Top(Found))
        /\ result.out = <<>>
        /\ stack = Rest(Found)

\* "55296 emit", a surrogate, on a stack that held -1: the error carries
\* 55296 and the stack is as the call found it
C14_Witness ==
    /\ IsExpr /\ phrase = Join(<<<<53, 53, 50, 57, 54>>, w_emit>>)
    /\ before.stack = <<-1>>
    /\ result = UnicodeInvalid(55296)
    /\ stack = <<-1>>

-----------------------------------------------------------------------------
(* C15 *)

\* the output of the tokens before the last one
OutputBefore == After(Len(LineTokens.tokens) - 1).result.out

\* C15: when a line ends in spaces and the value n on top of the stack is
\* not negative, spaces pops n and appends exactly n space characters to
\* the output of the line; the line "3 spaces" returns a string of length 3.
C15_Spaces ==
    /\ (LastIs({"Spaces"}) /\ Len(Found) >= 1 /\ Top(Found) >= 0) =>
          /\ result.kind = "Ok"
          /\ result.out = OutputBefore \o [i \in 1..Top(Found) |-> 32]
          /\ stack = Rest(Found)
    /\ (IsExpr /\ phrase = Join(<<w_3, PrimitiveName["Spaces"]>>)) =>
          /\ result.kind = "Ok"
          /\ Len(result.out) = 3

-----------------------------------------------------------------------------
(* C16 *)

\* C16: when a line ends in spaces and the value on top of the stack is
\* negative, eval either returns an error value or succeeds having appended
\* no space; it never aborts.
C16_NegativeSpaces ==
    (LastIs({"Spaces"}) /\ Len(Found) >= 1 /\ Top(Found) < 0) =>
        \/ result.kind = "Err"
        \/ result.kind = "Ok" /\ result.out = OutputBefore

-----------------------------------------------------------------------------
(* C17 *)

\* how many elements each primitive needs on the stack
Needs ==
    [w \in Word |->
        IF w = "Rot" THEN 3
        ELSE IF w \in {"Dot", "Drop", "Dup", "Emit", "Spaces"} THEN 1
        ELSE 2]

\* the name each primitive goes by in its errors
OpName ==
    [Dot |-> "dot", Drop |-> "drop", Dup |-> "dup", Minus |-> "minus",
     Mod |-> "mod", Rot |-> "rot", Plus |-> "plus", Slash |-> "slash",
     SlashMod |-> "slash-mod", Star |-> "star", Emit |-> "emit",
     Spaces |-> "spaces", Swap |-> "swap"]

\* C17: a primitive run on a stack with fewer elements than it needs (1 for
\* . drop dup emit spaces, 2 for + - * / mod /mod swap, 3 for rot) makes
\* eval return the stack-underflow error that names the primitive, and
\* never succeeds; dup on an empty stack fails with the underflow error
\* naming dup and leaves the stack empty.
C17_Underflow ==
    /\ (LastIs(Word) /\ Len(Found) < Needs[LastWord]) =>
          result = Static(OpName[LastWord] \o ": stack underflow")
    /\ (IsExpr /\ phrase = w_dup /\ before.stack = <<>>) =>
          /\ result = Static("dup: stack underflow")
          /\ stack = <<>>

\* dup on an empty stack
C17_Witness ==
    /\ IsExpr /\ phrase = w_dup
    /\ before.stack = <<>>
    /\ result = Static("dup: stack underflow")
    /\ stack = <<>>

-----------------------------------------------------------------------------
(* C18 *)

\* the words of the line
LineWords == split_ascii_whitespace(phrase)

\* a word that is neither a primitive, an integer literal nor an entry of
\* the dictionary as the call found it
Unknown(w) ==
    /\ ~IsPrimitiveName(w)
    /\ ~parse_i32(w).ok
    /\ w \notin DOMAIN before.dictionary

\* C18: an expression line with a word that is neither a primitive, an
\* integer literal nor a dictionary entry fails with the undefined-word
\* error carrying the first such word, returns no output and leaves the
\* stack as the call found it, whatever tokens come before the word.
C18_UndefinedWord ==
    (IsExpr /\ \E i \in DOMAIN LineWords : Unknown(LineWords[i])) =>
        /\ \E i \in DOMAIN LineWords :
              /\ Unknown(LineWords[i])
              /\ \A j \in 1..(i - 1) : ~Unknown(LineWords[j])
              /\ result = UndefinedWord(LineWords[i])
        /\ result.out = <<>>
        /\ stack = before.stack

\* "1 2 foo" on the stack 7: the error carries foo and neither 1 nor 2 was
\* pushed
C18_Witness ==
    /\ IsExpr /\ phrase = Join(<<w_1, w_2, w_foo>>)
    /\ before.stack = <<7>>
    /\ result = UndefinedWord(w_foo)
    /\ stack = <<7>>

-----------------------------------------------------------------------------
(* C19 *)

\* the primitives that pop two operands
TwoOperand == {"Plus", "Minus", "Star", "Slash", "Mod", "SlashMod", "Swap"}

\* C19: a two-operand primitive (+ - * / mod /mod swap) run on a stack of
\* exactly one element fails with its underflow error and the element is
\* gone, the stack being empty afterwards; rot on fewer than three elements
\* and dup on an empty stack fail and leave the stack exactly as it was.
C19_UnderflowStack ==
    /\ (LastIs(TwoOperand) /\ Len(Found) = 1) =>
          /\ result = Static(OpName[LastWord] \o ": stack underflow")
          /\ stack = <<>>
    /\ (LastIs({"Rot"}) /\ Len(Found) < 3) =>
          /\ result = Static("rot: stack underflow")
          /\ stack = Found
    /\ (LastIs({"Dup"}) /\ Len(Found) = 0) =>
          /\ result = Static("dup: stack underflow")
          /\ stack = Found

\* + on the stack 3: the underflow error, and 3 is gone
C19_Witness ==
    /\ IsExpr /\ phrase = w_plus
    /\ before.stack = <<3>>
    /\ result = Static("plus: stack underflow")
    /\ stack = <<>>

-----------------------------------------------------------------------------
(* C20 *)

\* C20: the dictionary changes only in a successful definition call: after
\* an expression line, successful or failing, and after a definition line
\* that fails (no name, or an undefined word in the body), every entry of
\* the dictionary, the entry of the name being defined included, is as the
\* call found it.
C20_DictionaryFrame ==
    (Called /\ ~DefOk) => dictionary = before.dictionary

\* ": a foo" when a is defined: the call fails and the entry of a is kept
C20_Witness ==
    /\ IsDef /\ phrase = DefLine(w_a, <<w_foo>>)
    /\ w_a \in DOMAIN before.dictionary
    /\ result = UndefinedWord(w_foo)
    /\ dictionary = before.dictionary
    /\ dictionary[w_a] = <<Number(1)>>

====
